---------------------------- MODULE Spec2Model ----------------------------
(***************************************************************************)
(* Image triage and aggregation pipeline (src/src/index.ts) together with  *)
(* its worker thread (worker.ts, src/unnamed/part_001 lines 59-124).       *)
(*                                                                         *)
(* The main thread is a single-threaded event loop: every action of the    *)
(* main thread below is one macrotask (an I/O completion, a timer, a       *)
(* message event) together with the microtasks it triggers.  The two       *)
(* worker threads run in parallel with it and with each other.             *)
(*                                                                         *)
(* Strings that the code inspects character by character (label names,     *)
(* hexadecimal fingerprints) are sequences of one-character strings.       *)
(* qualityScore is kept in tenths (6 for 0.6, 10 for 1).                   *)
(***************************************************************************)
EXTENDS Integers, Sequences, FiniteSets, TLC

(***************************************************************************)
(* Program constants                                                       *)
(***************************************************************************)
WORKER_COUNT == 2

IO_LIMIT == 15

CPU_LIMIT == 5

RETRIES == 3

CONFIDENCE_FLOOR == 50

HAMMING_THRESHOLD == 3

(***************************************************************************)
(* Bounds of the model                                                     *)
(***************************************************************************)
\* longest request explored with every fault and every interleaving
MaxUrls == 2

\* handler invocations served by one container (one worker pool)
MaxInvocations == 2

\* URLs beyond a concurrency ceiling in the two wide requests
Overflow == 1

\* number of distinct URLs a request cycles through (duplicates beyond it)
DistinctUrls == 2

\* longest label response given to classifyDamage on its own
MaxLabels == 2

\* longest list of records given to groupByHash on its own
MaxRecords == 3

\* longest list of representatives given to the aggregation on its own
MaxReps == 3

None == "none"

\* null or undefined where the code holds an object
Null == [null |-> TRUE]

Workers == 0 .. (WORKER_COUNT - 1)

Min(a, b) == IF a < b THEN a ELSE b

RECURSIVE SumSeq(_)
SumSeq(s) == IF s = <<>> THEN 0 ELSE Head(s) + SumSeq(Tail(s))

(***************************************************************************)
(* Strings                                                                 *)
(***************************************************************************)
Upper == <<"A","B","C","D","E","F","G","H","I","J","K","L","M",
           "N","O","P","Q","R","S","T","U","V","W","X","Y","Z">>

Lower == <<"a","b","c","d","e","f","g","h","i","j","k","l","m",
           "n","o","p","q","r","s","t","u","v","w","x","y","z">>

\* String.prototype.toLowerCase on one character
LowerChar(c) ==
    IF \E k \in 1 .. Len(Upper) : Upper[k] = c
    THEN Lower[CHOOSE k \in 1 .. Len(Upper) : Upper[k] = c]
    ELSE c

\* String.prototype.toLowerCase
ToLowerCase(s) == [k \in 1 .. Len(s) |-> LowerChar(s[k])]

\* String.prototype.includes: kw occurs in s as a contiguous substring
Includes(s, kw) ==
    \E off \in 0 .. (Len(s) - Len(kw)) :
        \A k \in 1 .. Len(kw) : s[off + k] = kw[k]

S_blur == <<"b","l","u","r">>
S_blurry == <<"b","l","u","r","r","y">>
S_dark == <<"d","a","r","k">>
S_shadow == <<"s","h","a","d","o","w">>
S_roof == <<"r","o","o","f">>
S_shingle == <<"s","h","i","n","g","l","e">>
S_garage == <<"g","a","r","a","g","e">>
S_door == <<"d","o","o","r">>
S_wall == <<"w","a","l","l">>
S_siding == <<"s","i","d","i","n","g">>
S_panel == <<"p","a","n","e","l">>
S_damage == <<"d","a","m","a","g","e">>
S_shingle_uplift == S_shingle \o <<" ">> \o <<"u","p","l","i","f","t">>
S_material_detachment ==
    <<"m","a","t","e","r","i","a","l">> \o <<" ">> \o
    <<"d","e","t","a","c","h","m","e","n","t">>
S_wind_damage == <<"w","i","n","d"," ">> \o S_damage
S_hail_damage == <<"h","a","i","l"," ">> \o S_damage
S_roof_damage == S_roof \o <<" ">> \o S_damage

damageKeywords ==
    { S_damage, S_shingle_uplift, S_material_detachment,
      S_wind_damage, S_hail_damage, S_roof_damage }

(***************************************************************************)
(* classifyDamage                                                          *)
(***************************************************************************)
ClsInit == [blurry |-> FALSE, dark |-> FALSE, area |-> None, damageLabels |-> <<>>]

\* one iteration of the loop over the labels in which a label sets the area
\* only while none is set (first match wins)
ClsStepFirstMatch(acc, L) ==
    LET name == ToLowerCase(L.Name)
        confidence == L.Confidence
    IN  IF confidence < CONFIDENCE_FLOOR THEN acc
        ELSE LET a1 == IF name \in {S_roof, S_shingle} THEN "roof" ELSE acc.area
                 a2 == IF name \in {S_garage, S_door} THEN "garage" ELSE a1
                 a3 == IF name \in {S_wall, S_siding, S_panel} THEN "siding" ELSE a2
             IN  [blurry |-> acc.blurry \/ name \in {S_blur, S_blurry},
                  dark |-> acc.dark \/ name \in {S_dark, S_shadow},
                  area |-> IF acc.area = None THEN a3 ELSE acc.area,
                  damageLabels |->
                      IF \E kw \in damageKeywords : Includes(name, kw)
                      THEN Append(acc.damageLabels, L)
                      ELSE acc.damageLabels]

\* one iteration of the loop over the labels
ClsStep(acc, L) ==
    LET name == ToLowerCase(L.Name)
        confidence == L.Confidence
    IN  IF confidence < CONFIDENCE_FLOOR THEN acc
        ELSE LET a1 == IF name \in {S_roof, S_shingle} THEN "roof" ELSE acc.area
                 a2 == IF name \in {S_garage, S_door} THEN "garage" ELSE a1
                 a3 == IF name \in {S_wall, S_siding, S_panel} THEN "siding" ELSE a2
             IN  [blurry |-> acc.blurry \/ name \in {S_blur, S_blurry},
                  dark |-> acc.dark \/ name \in {S_dark, S_shadow},
                  area |-> a3,
                  damageLabels |->
                      IF \E kw \in damageKeywords : Includes(name, kw)
                      THEN Append(acc.damageLabels, L)
                      ELSE acc.damageLabels]

RECURSIVE ClsLoop(_, _)
ClsLoop(acc, labels) ==
    IF labels = <<>> THEN acc
    ELSE ClsLoop(ClsStep(acc, Head(labels)), Tail(labels))

\* Math.floor in place of Math.round
SeverityTruncated(damageLabels) ==
    LET n == IF Len(damageLabels) = 0 THEN 1 ELSE Len(damageLabels)
        total == SumSeq([k \in 1 .. Len(damageLabels) |-> damageLabels[k].Confidence])
    IN  Min(4, total \div (25 * n))

\* Math.min(4, Math.round(avgConfidence / 25)) on integer confidences:
\* Math.round(x) is floor(x + 1/2)
Severity(damageLabels) ==
    LET n == IF Len(damageLabels) = 0 THEN 1 ELSE Len(damageLabels)
        total == SumSeq([k \in 1 .. Len(damageLabels) |-> damageLabels[k].Confidence])
    IN  Min(4, (2 * total + 25 * n) \div (50 * n))

classifyDamage(labels) ==
    LET acc == ClsLoop(ClsInit, labels)
    IN  IF acc.area = None /\ Len(acc.damageLabels) = 0
        THEN [discard |-> TRUE, area |-> None, severity |-> 0, qualityScore |-> 0]
        ELSE [discard |-> FALSE,
              area |-> IF acc.area = None THEN "unknown" ELSE acc.area,
              severity |-> Severity(acc.damageLabels),
              qualityScore |-> IF acc.blurry \/ acc.dark THEN 6 ELSE 10]

(***************************************************************************)
(* groupByHash                                                             *)
(***************************************************************************)
\* counts the positions i < a.length with a[i] !== b[i]; past the end of b
\* the right side is undefined and so differs
hammingDistance(a, b) ==
    Cardinality({k \in 1 .. Len(a) : k > Len(b) \/ a[k] # b[k]})

\* the records reachable from the group g through steps within the threshold
RECURSIVE Closure(_, _, _)
Closure(images, visited, g) ==
    LET more == {j \in 1 .. Len(images) :
                    /\ j \notin visited \cup g
                    /\ \E m \in g : hammingDistance(images[m].hash, images[j].hash)
                                        <= HAMMING_THRESHOLD}
    IN  IF more = {} THEN g ELSE Closure(images, visited, g \cup more)

\* the group seeded by record i as a connected component
GroupOfTransitive(images, visited, i) == Closure(images, visited, {i})

\* the group seeded by record i without the test of visited[j]
GroupOfRevisit(images, visited, i) ==
    {i} \cup {j \in (i + 1) .. Len(images) :
                 hammingDistance(images[i].hash, images[j].hash) <= HAMMING_THRESHOLD}

\* the group seeded by record i: i and every later unvisited j close to i
GroupOf(images, visited, i) ==
    {i} \cup {j \in (i + 1) .. Len(images) :
                 j \notin visited
                 /\ hammingDistance(images[i].hash, images[j].hash) <= HAMMING_THRESHOLD}

SeqOfSet(images, S) == SelectSeq([k \in 1 .. Len(images) |-> k], LAMBDA k : k \in S)

RECURSIVE GroupLoop(_, _, _, _)
GroupLoop(images, visited, i, groups) ==
    IF i > Len(images) THEN groups
    ELSE IF i \in visited THEN GroupLoop(images, visited, i + 1, groups)
    ELSE LET g == GroupOf(images, visited, i)
         IN  GroupLoop(images, visited \cup g, i + 1,
                       Append(groups, [k \in 1 .. Cardinality(g) |->
                                          images[SeqOfSet(images, g)[k]]]))

groupByHash(images) == GroupLoop(images, {}, 1, <<>>)

\* the last member of highest quality (an unstable or reversed tie-break)
BestOfLast(g) ==
    g[CHOOSE k \in 1 .. Len(g) :
        /\ \A m \in 1 .. Len(g) : g[m].quality <= g[k].quality
        /\ \A m \in (k + 1) .. Len(g) : g[m].quality < g[k].quality]

\* g.sort((a, b) => b.quality - a.quality)[0]: the sort is stable, so the
\* first member of highest quality
BestOf(g) ==
    g[CHOOSE k \in 1 .. Len(g) :
        /\ \A m \in 1 .. Len(g) : g[m].quality <= g[k].quality
        /\ \A m \in 1 .. (k - 1) : g[m].quality < g[k].quality]

bestImages(groups) == [k \in 1 .. Len(groups) |-> BestOf(groups[k])]

\* keys of areaMap in insertion order
RECURSIVE AreaKeys(_, _)
AreaKeys(best, keys) ==
    IF best = <<>> THEN keys
    ELSE AreaKeys(Tail(best),
                  IF \E k \in 1 .. Len(keys) : keys[k] = Head(best).area
                  THEN keys ELSE Append(keys, Head(best).area))

\* x.toFixed(1) in tenths for the double x computed as num / den: the n with
\* n/10 nearest to x.  The double is the quotient up to rounding errors of a
\* few units in the last place, so when the exact quotient lies halfway
\* between two tenths either of them may result
toFixed1(num, den) ==
    {n \in 0 .. 40 : 2 * (10 * num - n * den) <= den /\ 2 * (n * den - 10 * num) <= den}

\* imgs.reduce((sum, i) => sum + i.quality, 0), in tenths
totalWeight(imgs) == SumSeq([k \in 1 .. Len(imgs) |-> imgs[k].quality])

\* the sum of the severities without their weights, in tenths
unweightedSeverity(imgs) == SumSeq([k \in 1 .. Len(imgs) |-> imgs[k].severity * 10])

\* imgs.reduce((sum, i) => sum + i.severity * i.quality, 0), in tenths
weightedSeverity(imgs) == SumSeq([k \in 1 .. Len(imgs) |-> imgs[k].severity * imgs[k].quality])

\* the note decided on the rounded average
exceedsThresholdRounded(num, den) == {n > 25 : n \in toFixed1(num, den)}

\* avgSeverity > 2.5 for the double computed as num / den; when the exact
\* quotient is 2.5 the rounding errors decide
exceedsThreshold(num, den) ==
    IF 2 * num = 5 * den THEN BOOLEAN ELSE {2 * num > 5 * den}

\* the area confirmed by a single damaged representative
confirmedByOne(imgs) ==
    Cardinality({k \in 1 .. Len(imgs) : imgs[k].severity >= 2}) >= 1

\* imgs.filter(i => i.severity >= 2).length >= 2
confirmed(imgs) ==
    Cardinality({k \in 1 .. Len(imgs) : imgs[k].severity >= 2}) >= 2

\* areaMap[area]: the representatives of the area, in order
areaImgs(best, area) == SelectSeq(best, LAMBDA i : i.area = area)

\* the AreaResult values the callback of Object.entries(areaMap).map can yield
\* for one area
AreaResults(area, imgs) ==
    { [area |-> area,
       damage_confirmed |-> confirmed(imgs),
       avg_severity |-> avg,
       representative_images |->
           [k \in 1 .. Min(3, Len(imgs)) |-> imgs[k].url],
       notes |-> IF high THEN "Shingle uplift or material detachment"
                 ELSE "Minor cosmetic or no visible damage"] :
      avg \in toFixed1(weightedSeverity(imgs), totalWeight(imgs)),
      high \in exceedsThreshold(weightedSeverity(imgs), totalWeight(imgs)) }

\* finalAreas: one AreaResult per key of areaMap, in insertion order
finalAreas(best) ==
    LET keys == AreaKeys(best, <<>>)
        each == [k \in 1 .. Len(keys) |-> AreaResults(keys[k], areaImgs(best, keys[k]))]
    IN  {fa \in [1 .. Len(keys) -> UNION {each[k] : k \in 1 .. Len(keys)}] :
            \A k \in 1 .. Len(keys) : fa[k] \in each[k]}

\* the mean of the per-area averages in place of the mean over all
\* representatives
overallOfAreaAverages(best) ==
    IF Len(best) = 0 THEN {0}
    ELSE LET keys == AreaKeys(best, <<>>)
             avg(k) == CHOOSE n \in toFixed1(weightedSeverity(areaImgs(best, keys[k])),
                                             totalWeight(areaImgs(best, keys[k]))) : TRUE
         IN  toFixed1(SumSeq([k \in 1 .. Len(keys) |-> avg(k)]), 10 * Len(keys))

\* overall severity in tenths: +(sum(sev * q) / sum(q)).toFixed(1), or 0
overallSeverity(best) ==
    IF Len(best) = 0 THEN {0}
    ELSE toFixed1(weightedSeverity(best), totalWeight(best))

(***************************************************************************)
(* Inputs: requests, image bytes, label-service responses                  *)
(***************************************************************************)
\* the request of n URLs cycling through d distinct ones: a request longer
\* than d holds duplicates
Request(n, d) == [i \in 1 .. n |-> ((i - 1) % d) + 1]

\* the bytes served for a URL
BufferOf(url) == url

\* createHash('sha1').update(buffer).digest('hex').slice(0, 16) of the bytes
\* "img-1", "img-2", "img-3"
Sha1Hex16 ==
    << <<"3","c","9","8","7","5","d","4","c","e","0","3","5","0","4","3">>,
       <<"3","8","f","f","b","2","c","d","8","e","b","b","e","1","e","9">>,
       <<"6","d","b","a","d","0","8","5","7","b","6","7","1","1","5","e">> >>

hashBuffer(buffer) == Sha1Hex16[buffer]

LabelsRoofDamage ==
    << [Name |-> <<"R","o","o","f">>, Confidence |-> 90],
       [Name |-> <<"R","o","o","f"," ","D","a","m","a","g","e">>, Confidence |-> 80] >>

LabelsBlurrySiding ==
    << [Name |-> <<"S","i","d","i","n","g">>, Confidence |-> 70],
       [Name |-> <<"B","l","u","r">>, Confidence |-> 55] >>

LabelsSky ==
    << [Name |-> <<"S","k","y">>, Confidence |-> 99],
       [Name |-> <<"R","o","o","f">>, Confidence |-> 40] >>

KeptResponses == {LabelsRoofDamage}

DroppedResponses == {LabelsSky}

\* label names the service may return, in its capitalisation
LabelNames ==
    { <<"R","o","o","f">>, <<"S","i","d","i","n","g">>, <<"D","o","o","r">>,
      <<"B","l","u","r">>, <<"S","h","a","d","o","w">>,
      <<"R","o","o","f"," ","D","a","m","a","g","e">>, <<"S","k","y">> }

\* confidences: just below the floor, on it, and two above it
LabelConfidences == {49, 50, 75, 100}

Labels == [Name : LabelNames, Confidence : LabelConfidences]

\* the label responses of at most MaxLabels labels
LabelInputs == UNION {[1 .. n -> Labels] : n \in 0 .. MaxLabels}

\* fingerprints within the threshold of each other except 0000 and 1111
NearFingerprints ==
    { <<"0","0","0","0">>, <<"0","0","1","1">>, <<"0","1","1","0">>, <<"1","1","1","1">> }

\* fingerprints differing from each other in every position
FarDigits == <<"a","b","c","d","e","f">>

FarFingerprint(k) == [i \in 1 .. 4 |-> FarDigits[k]]

\* a list of near-duplicates of either quality, for the clustering
ClusterInput(n, h, q) ==
    [k \in 1 .. n |-> [url |-> k, area |-> "roof", severity |-> 2,
                       quality |-> q[k], hash |-> h[k]]]

\* a list of records in clusters of their own, with any severity and quality
\* and one of two areas (the first record opens the area roof), for the
\* aggregation
AggregateInput(n, a, v, q) ==
    [k \in 1 .. n |-> [url |-> k, area |-> a[k], severity |-> v[k],
                       quality |-> q[k], hash |-> FarFingerprint(k)]]

\* what the environment of one invocation may do: the request length and the
\* number of distinct URLs in it, which of the three per-image failures may happen (fetch attempt, label service,
\* hash task) and the label responses the service may give
SmallScenarios ==
    { [n |-> k, urls |-> DistinctUrls,
       fetchFaults |-> TRUE, labelFaults |-> TRUE, hashFaults |-> TRUE,
       responses |-> KeptResponses \cup DroppedResponses] : k \in 0 .. MaxUrls }

\* requests longer than a concurrency ceiling, and a request one longer than
\* the small ones whose hash tasks may fail while its fetches and label calls
\* succeed (so that three hash tasks are pending together, two on one worker)
WideScenarios ==
    { [n |-> MaxUrls + 1, urls |-> DistinctUrls,
       fetchFaults |-> FALSE, labelFaults |-> FALSE, hashFaults |-> TRUE,
       responses |-> KeptResponses],
      [n |-> IO_LIMIT + Overflow, urls |-> 1,
       fetchFaults |-> FALSE, labelFaults |-> FALSE, hashFaults |-> FALSE,
       responses |-> DroppedResponses],
      [n |-> CPU_LIMIT + Overflow, urls |-> 1,
       fetchFaults |-> FALSE, labelFaults |-> FALSE, hashFaults |-> FALSE,
       responses |-> KeptResponses] }

(***************************************************************************)
(* State                                                                   *)
(***************************************************************************)
VARIABLES
    \* worker pool, module level of index.ts: lives as long as the container
    nextWorker, taskCounter,
    listeners,      \* per worker: the 'message' listeners, in registration order
    inbox,          \* per worker: messages posted to it and not yet handled
    replies,        \* per worker: replies posted and not yet delivered
    \* history of the pool
    postedTo,       \* per worker: the task ids posted to it, in order
    handled,        \* per worker: the task ids it replied to, in order
    hung,           \* per worker: whether it stopped taking messages for good
    \* one handler invocation
    pc, invocations, env, images,
    fetchSt, attempts, ioQueue, ioActive, qualityResults,
    validImages, cpuSt, cls, cpuQueue, cpuActive,
    photoData, analyzed, discarded, response

poolVars == <<nextWorker, taskCounter, listeners, inbox, replies, postedTo, handled, hung>>

fetchVars == <<fetchSt, attempts, ioQueue, ioActive, qualityResults>>

cpuVars == <<validImages, cpuSt, cls, cpuQueue, cpuActive>>

resultVars == <<photoData, analyzed, discarded, response>>

vars == <<poolVars, pc, invocations, env, images, fetchVars, cpuVars, resultVars>>

(***************************************************************************)
(* p-limit                                                                 *)
(***************************************************************************)
\* a limiter that starts everything handed to it
AdmitAll(limit, active, queue) == Len(queue)

\* how many queued tasks a limiter of the given width starts when `active`
\* tasks are running
Admit(limit, active, queue) == Min(limit - active, Len(queue))

FirstOf(queue, k) == {queue[j] : j \in 1 .. k}

RestOf(queue, k) == SubSeq(queue, k + 1, Len(queue))

Init ==
    /\ nextWorker = 0
    /\ taskCounter = 0
    /\ listeners = [w \in Workers |-> <<>>]
    /\ inbox = [w \in Workers |-> <<>>]
    /\ replies = [w \in Workers |-> <<>>]
    /\ postedTo = [w \in Workers |-> <<>>]
    /\ handled = [w \in Workers |-> <<>>]
    /\ hung = [w \in Workers |-> FALSE]
    /\ pc = "idle"
    /\ invocations = 0
    /\ env = [n |-> 0, urls |-> 1, fetchFaults |-> FALSE, labelFaults |-> FALSE, hashFaults |-> FALSE,
              responses |-> {}]
    /\ images = <<>>
    /\ fetchSt = <<>>
    /\ attempts = <<>>
    /\ ioQueue = <<>>
    /\ ioActive = 0
    /\ qualityResults = <<>>
    /\ validImages = <<>>
    /\ cpuSt = <<>>
    /\ cls = <<>>
    /\ cpuQueue = <<>>
    /\ cpuActive = 0
    /\ photoData = <<>>
    /\ analyzed = 0
    /\ discarded = 0
    /\ response = Null

(***************************************************************************)
(* handler: entry, and phase 1 (fetch)                                     *)
(***************************************************************************)
\* handler is called with a body holding an images array: lines 137-160 up
\* to the first await; limitIO starts the first IO_LIMIT fetch tasks
Invoke(sc) ==
    /\ pc \in {"idle", "returned", "badRequest", "threw"}
    /\ invocations < MaxInvocations
    \* a wide request is explored on a fresh container, and it is the last
    /\ sc \in WideScenarios => invocations = 0
    /\ env \notin WideScenarios
    /\ LET queue == [i \in 1 .. sc.n |-> i]
           k == Admit(IO_LIMIT, 0, queue)
       IN  /\ fetchSt' = [i \in 1 .. sc.n |-> IF i \in FirstOf(queue, k)
                                              THEN "attempt" ELSE "queued"]
           /\ attempts' = [i \in 1 .. sc.n |-> IF i \in FirstOf(queue, k) THEN 1 ELSE 0]
           /\ ioQueue' = RestOf(queue, k)
           /\ ioActive' = k
    /\ invocations' = invocations + 1
    /\ env' = sc
    /\ images' = Request(sc.n, sc.urls)
    /\ qualityResults' = [i \in 1 .. sc.n |-> Null]
    /\ validImages' = <<>>
    /\ cpuSt' = <<>>
    /\ cls' = <<>>
    /\ cpuQueue' = <<>>
    /\ cpuActive' = 0
    /\ photoData' = <<>>
    /\ analyzed' = 0
    /\ discarded' = 0
    /\ response' = Null
    /\ pc' = "fetching"
    /\ UNCHANGED poolVars

\* handler is called with a body that holds no images array: images.map
\* throws a TypeError and the invocation fails
InvokeWithoutImages ==
    /\ pc \in {"idle", "returned", "badRequest", "threw"}
    /\ env \notin WideScenarios
    /\ invocations < MaxInvocations
    /\ invocations' = invocations + 1
    /\ pc' = "badRequest"
    /\ images' = <<>>
    /\ response' = Null
    /\ UNCHANGED <<poolVars, env, fetchVars, cpuVars, photoData, analyzed, discarded>>

\* a discard that is not counted
CountDiscardLost(d) == d

\* discarded++
CountDiscard(d) == d + 1

\* the fetch task has no try/catch
FetchTaskRethrows == FALSE

\* the try/catch of a fetch task (lines 151-157) keeps 'Fetch failed' from
\* rejecting Promise.all
FetchTaskCatches == TRUE

\* a fetch task settles and limitIO starts the next queued one
ReleaseIO(i, st) ==
    LET k == Admit(IO_LIMIT, ioActive - 1, ioQueue)
        go == FirstOf(ioQueue, k)
    IN  /\ fetchSt' = [j \in DOMAIN fetchSt |->
                          IF j = i THEN st ELSE IF j \in go THEN "attempt" ELSE fetchSt[j]]
        /\ attempts' = [j \in DOMAIN attempts |-> IF j \in go THEN 1 ELSE attempts[j]]
        /\ ioQueue' = RestOf(ioQueue, k)
        /\ ioActive' = ioActive - 1 + k

\* fetchWithRetry: res.ok and the body was read; the task returns {url, buffer}
FetchOk(i) ==
    /\ pc = "fetching"
    /\ i \in DOMAIN fetchSt
    /\ fetchSt[i] = "attempt"
    /\ qualityResults' = [qualityResults EXCEPT ![i] =
                             [url |-> images[i], buffer |-> BufferOf(images[i])]]
    /\ ReleaseIO(i, "ok")
    /\ UNCHANGED <<poolVars, pc, invocations, env, images, cpuVars, resultVars>>

\* gives up one attempt early
LastAttemptEarly(made) == made = RETRIES - 1

\* whether the catch block of fetchWithRetry gives up after this many attempts
LastAttempt(made) == made - 1 = RETRIES - 1

\* fetchWithRetry: !res.ok or a transport error; the catch block either throws
\* 'Fetch failed' (the task then counts a discard and returns null) or waits
FetchFail(i) ==
    /\ pc = "fetching"
    /\ env.fetchFaults
    /\ i \in DOMAIN fetchSt
    /\ fetchSt[i] = "attempt"
    /\ IF LastAttempt(attempts[i])
       THEN IF FetchTaskCatches
            THEN /\ discarded' = CountDiscard(discarded)
                 /\ ReleaseIO(i, "failed")
                 /\ UNCHANGED pc
            ELSE /\ pc' = "threw"
                 /\ UNCHANGED <<discarded, fetchSt, attempts, ioQueue, ioActive>>
       ELSE /\ fetchSt' = [fetchSt EXCEPT ![i] = "delay"]
            /\ UNCHANGED <<pc, discarded, attempts, ioQueue, ioActive>>
    /\ UNCHANGED <<poolVars, invocations, env, images, qualityResults, cpuVars,
                   photoData, analyzed, response>>

\* the retry delay elapsed: the loop makes the next attempt
DelayElapsed(i) ==
    /\ pc = "fetching"
    /\ i \in DOMAIN fetchSt
    /\ fetchSt[i] = "delay"
    /\ fetchSt' = [fetchSt EXCEPT ![i] = "attempt"]
    /\ attempts' = [attempts EXCEPT ![i] = @ + 1]
    /\ UNCHANGED <<poolVars, pc, invocations, env, images, ioQueue, ioActive,
                   qualityResults, cpuVars, resultVars>>

(***************************************************************************)
(* handler: phase 2 (label service, classification, hash task)             *)
(***************************************************************************)
\* qualityResults.filter(Boolean)
FilterValid(results) == SelectSeq(results, LAMBDA r : r # Null)

\* every fetch task has settled: Promise.all resolves, validImages is built and
\* limitCPU starts the first CPU_LIMIT classification tasks (lines 161-166)
BeginClassify ==
    /\ pc = "fetching"
    /\ \A i \in DOMAIN fetchSt : fetchSt[i] \in {"ok", "failed"}
    /\ LET valid == FilterValid(qualityResults)
           queue == [j \in 1 .. Len(valid) |-> j]
           k == Admit(CPU_LIMIT, 0, queue)
       IN  /\ validImages' = valid
           /\ cpuSt' = [j \in 1 .. Len(valid) |-> IF j \in FirstOf(queue, k)
                                                  THEN "labels" ELSE "queued"]
           /\ cls' = [j \in 1 .. Len(valid) |-> Null]
           /\ cpuQueue' = RestOf(queue, k)
           /\ cpuActive' = k
    /\ pc' = "classifying"
    /\ UNCHANGED <<poolVars, invocations, env, images, fetchVars, resultVars>>

\* the classification tasks in `done` settle and limitCPU starts queued ones
ReleaseCPU(done, other) ==
    LET k == Admit(CPU_LIMIT, cpuActive - Cardinality(done), cpuQueue)
        go == FirstOf(cpuQueue, k)
    IN  /\ cpuSt' = [j \in DOMAIN cpuSt |->
                        IF j \in done THEN "done"
                        ELSE IF j \in go THEN "labels" ELSE cpuSt[j]]
        /\ cpuQueue' = RestOf(cpuQueue, k)
        /\ cpuActive' = cpuActive - Cardinality(done) + k
        /\ UNCHANGED other

\* client.send rejects (timeout, malformed response): the catch block counts
\* a discard
LabelError(j) ==
    /\ pc = "classifying"
    /\ env.labelFaults
    /\ j \in DOMAIN cpuSt
    /\ cpuSt[j] = "labels"
    /\ discarded' = CountDiscard(discarded)
    /\ ReleaseCPU({j}, <<validImages, cls>>)
    /\ UNCHANGED <<poolVars, pc, invocations, env, images, fetchVars,
                   photoData, analyzed, response>>

\* runTask: the id of the next task
NextTaskId(counter) == counter + 1

\* the round-robin pointer is never advanced
AdvanceWorkerStuck(w) == w

\* runTask: the round-robin step
AdvanceWorker(w) == (w + 1) % WORKER_COUNT

\* runTask(type, buffer) called by classification task j (lines 15-31)
runTask(type, buffer, j) ==
    LET taskId == NextTaskId(taskCounter)
        w == nextWorker
    IN  /\ taskCounter' = taskId
        /\ nextWorker' = AdvanceWorker(nextWorker)
        /\ listeners' = [listeners EXCEPT ![w] = Append(@, [taskId |-> taskId, task |-> j])]
        /\ inbox' = [inbox EXCEPT ![w] =
                        Append(@, [taskId |-> taskId, type |-> type, buffer |-> buffer])]
        /\ postedTo' = [postedTo EXCEPT ![w] = Append(@, taskId)]
        /\ UNCHANGED <<replies, handled, hung>>

\* client.send resolves with labels: classifyDamage decides; a discard is
\* counted, otherwise the hash task is submitted and awaited
LabelReply(j, labels) ==
    /\ pc = "classifying"
    /\ j \in DOMAIN cpuSt
    /\ cpuSt[j] = "labels"
    /\ labels \in env.responses
    /\ LET c == classifyDamage(labels)
       IN  IF c.discard
           THEN /\ discarded' = CountDiscard(discarded)
                /\ ReleaseCPU({j}, <<validImages, cls>>)
                /\ UNCHANGED poolVars
           ELSE /\ runTask("hash", validImages[j].buffer, j)
                /\ cpuSt' = [cpuSt EXCEPT ![j] = "hashing"]
                /\ cls' = [cls EXCEPT ![j] = c]
                /\ UNCHANGED <<discarded, validImages, cpuQueue, cpuActive>>
    /\ UNCHANGED <<pc, invocations, env, images, fetchVars,
                   photoData, analyzed, response>>

(***************************************************************************)
(* worker thread: parentPort.on('message', ...)                            *)
(***************************************************************************)
\* the catch block posts the error without the task id
ReplyWithoutId(msg, threw) ==
    IF threw THEN [taskId |-> 0, error |-> TRUE, hash |-> <<>>]
    ELSE [taskId |-> msg.taskId, error |-> FALSE, hash |-> hashBuffer(msg.buffer)]

\* the reply the handler posts for msg
ReplyFor(msg, threw) ==
    IF threw THEN [taskId |-> msg.taskId, error |-> TRUE, hash |-> <<>>]
    ELSE IF msg.type = "hash"
         THEN [taskId |-> msg.taskId, error |-> FALSE, hash |-> hashBuffer(msg.buffer)]
         ELSE [taskId |-> msg.taskId, error |-> FALSE, hash |-> <<>>]

\* the workers share one thread: none takes a message while one is hung
NoWorkerHung(w) == \A v \in Workers : ~hung[v]

\* each worker is a thread of its own: it takes messages unless it hangs
WorkerAvailable(w) == ~hung[w]

\* the port hands over the newest message
NewestMessage(w) == inbox[w][Len(inbox[w])]

\* the message the worker's port delivers next: the oldest one posted to it
NextMessage(w) == Head(inbox[w])

\* one 'message' event of worker w.  The handler awaits only hashBuffer, an
\* async function that returns without waiting on anything, so it resumes in a
\* microtask and posts its reply before the port delivers another message:
\* {taskId, hash}, or {taskId, error} from the catch block when hashing threw
WorkerHandle(w, threw) ==
    /\ inbox[w] # <<>>
    /\ WorkerAvailable(w)
    /\ threw => env.hashFaults
    /\ LET msg == NextMessage(w)
       IN  /\ inbox' = [inbox EXCEPT ![w] = SelectSeq(@, LAMBDA m : m # msg)]
           /\ replies' = [replies EXCEPT ![w] = Append(@, ReplyFor(msg, threw))]
           /\ handled' = [handled EXCEPT ![w] = Append(@, msg.taskId)]
    /\ UNCHANGED <<nextWorker, taskCounter, listeners, postedTo, hung,
                   pc, invocations, env, images, fetchVars, cpuVars, resultVars>>

\* worker w stops for good while a task is waiting for it (a computation that
\* never returns): nothing in the pool times a task out
Hang(w) ==
    /\ env.hashFaults
    /\ inbox[w] # <<>>
    /\ ~hung[w]
    /\ hung' = [hung EXCEPT ![w] = TRUE]
    /\ UNCHANGED <<nextWorker, taskCounter, listeners, inbox, replies, postedTo, handled,
                   pc, invocations, env, images, fetchVars, cpuVars, resultVars>>

(***************************************************************************)
(* main thread: a reply arrives                                            *)
(***************************************************************************)
\* onMessage without the test of the task id
MatchesAny(l, msg) == TRUE

\* onMessage: msg.taskId === taskId
Matches(l, msg) == msg.taskId = l.taskId

\* the record pushed for classification task j with the hash of the reply
RecordOf(j, hash) ==
    [url |-> validImages[j].url, area |-> cls[j].area, severity |-> cls[j].severity,
     quality |-> cls[j].qualityScore, hash |-> hash]

\* the records are put in front of the list
unshift(list, recs) == recs \o list

\* photoData.push(...), for the records of one 'message' event
push(list, recs) == list \o recs

\* the 'message' event of worker w on the main thread: every listener runs
\* onMessage; a matching one is removed and settles its promise, and the
\* awaiting classification task pushes its record (or counts a discard)
DeliverReply(w) ==
    /\ replies[w] # <<>>
    /\ LET msg == Head(replies[w])
           hit == SelectSeq(listeners[w], LAMBDA l : Matches(l, msg))
           tasks == {hit[k].task : k \in 1 .. Len(hit)}
       IN  /\ listeners' = [listeners EXCEPT ![w] =
                               SelectSeq(@, LAMBDA l : ~Matches(l, msg))]
           /\ replies' = [replies EXCEPT ![w] = Tail(@)]
           /\ IF msg.error
              THEN /\ discarded' = IF Len(hit) = 0 THEN discarded
                                   ELSE CountDiscard(discarded) + Len(hit) - 1
                   /\ UNCHANGED <<photoData, analyzed>>
              ELSE /\ photoData' = push(photoData,
                                          [k \in 1 .. Len(hit) |-> RecordOf(hit[k].task, msg.hash)])
                   /\ analyzed' = analyzed + Len(hit)
                   /\ UNCHANGED discarded
           /\ IF tasks # {} /\ pc = "classifying"
              THEN ReleaseCPU(tasks, <<validImages, cls>>)
              ELSE UNCHANGED cpuVars
    /\ UNCHANGED <<nextWorker, taskCounter, inbox, postedTo, handled, hung,
                   pc, invocations, env, images, fetchVars, response>>

(***************************************************************************)
(* handler: clustering, aggregation and the response (lines 190-240)       *)
(***************************************************************************)
\* the await of phase 2 resumes as soon as one classification task settled
\* (Promise.race in place of Promise.all)
AnyClassified == cpuSt = <<>> \/ \E j \in DOMAIN cpuSt : cpuSt[j] = "done"

\* whether the await of phase 2 may resume: every classification task settled
AllClassified == \A j \in DOMAIN cpuSt : cpuSt[j] = "done"

Report(groups, overall, areas) ==
    [statusCode |-> 200,
     total |-> Len(images),
     analyzed |-> analyzed,
     discarded |-> discarded,
     clusters |-> Len(groups),
     overall_damage_severity |-> overall,
     areas |-> areas,
     data_gaps |-> IF analyzed < 3 THEN <<"Very few usable images">> ELSE <<>>]

Finish ==
    /\ pc = "classifying"
    /\ AllClassified
    /\ LET groups == groupByHash(photoData)
           best == bestImages(groups)
       IN  \E overall \in overallSeverity(best), areas \in finalAreas(best) :
               response' = Report(groups, overall, areas)
    /\ pc' = "returned"
    /\ UNCHANGED <<poolVars, invocations, env, images, fetchVars, cpuVars,
                   photoData, analyzed, discarded>>

Next ==
    \/ \E sc \in SmallScenarios \cup WideScenarios : Invoke(sc)
    \/ InvokeWithoutImages
    \/ \E i \in 1 .. (IO_LIMIT + Overflow) : FetchOk(i) \/ FetchFail(i) \/ DelayElapsed(i)
    \/ BeginClassify
    \/ \E j \in 1 .. (IO_LIMIT + Overflow) :
          \/ LabelError(j)
          \/ \E labels \in KeptResponses \cup DroppedResponses : LabelReply(j, labels)
    \/ \E w \in Workers : WorkerHandle(w, FALSE) \/ WorkerHandle(w, TRUE)
    \/ \E w \in Workers : DeliverReply(w)
    \/ Finish

Spec == Init /\ [][Next]_vars

\* the same program with workers that may hang
HangNext == Next \/ \E w \in Workers : Hang(w)

HangSpec == Init /\ [][HangNext]_vars

(***************************************************************************)
(* classifyDamage on its own: one fetched image whose label call is        *)
(* pending, and the label response is any of LabelInputs                   *)
(***************************************************************************)
ClassifyInit ==
    /\ nextWorker = 0
    /\ taskCounter = 0
    /\ listeners = [w \in Workers |-> <<>>]
    /\ inbox = [w \in Workers |-> <<>>]
    /\ replies = [w \in Workers |-> <<>>]
    /\ postedTo = [w \in Workers |-> <<>>]
    /\ handled = [w \in Workers |-> <<>>]
    /\ hung = [w \in Workers |-> FALSE]
    /\ pc = "classifying"
    /\ invocations = 1
    /\ \E labels \in LabelInputs :
          env = [n |-> 1, urls |-> 1, fetchFaults |-> FALSE, labelFaults |-> FALSE,
                 hashFaults |-> FALSE, responses |-> {labels}]
    /\ images = Request(1, 1)
    /\ fetchSt = <<"ok">>
    /\ attempts = <<1>>
    /\ ioQueue = <<>>
    /\ ioActive = 0
    /\ qualityResults = <<[url |-> 1, buffer |-> BufferOf(1)]>>
    /\ validImages = <<[url |-> 1, buffer |-> BufferOf(1)]>>
    /\ cpuSt = <<"labels">>
    /\ cls = <<Null>>
    /\ cpuQueue = <<>>
    /\ cpuActive = 1
    /\ photoData = <<>>
    /\ analyzed = 0
    /\ discarded = 0
    /\ response = Null

ClassifyNext == \E labels \in env.responses : LabelReply(1, labels)

ClassifySpec == ClassifyInit /\ [][ClassifyNext]_vars

(***************************************************************************)
(* clustering and aggregation on their own: phase 2 has completed with     *)
(* any of the record lists in photoData, and the handler goes on from      *)
(* line 190                                                                *)
(***************************************************************************)
\* the state in which phase 2 has completed with the records recs
Classified(recs) ==
    LET n == Len(recs)
        ids(w) == SelectSeq([k \in 1 .. n |-> k],
                            LAMBDA k : (k - 1) % WORKER_COUNT = w)
    IN  /\ nextWorker = n % WORKER_COUNT
        /\ taskCounter = n
        /\ listeners = [w \in Workers |-> <<>>]
        /\ inbox = [w \in Workers |-> <<>>]
        /\ replies = [w \in Workers |-> <<>>]
        /\ postedTo = [w \in Workers |-> ids(w)]
        /\ handled = [w \in Workers |-> ids(w)]
        /\ hung = [w \in Workers |-> FALSE]
        /\ pc = "classifying"
        /\ invocations = 1
        /\ env = [n |-> n, urls |-> n, fetchFaults |-> FALSE, labelFaults |-> FALSE,
                  hashFaults |-> FALSE, responses |-> {}]
        /\ images = [k \in 1 .. n |-> k]
        /\ fetchSt = [k \in 1 .. n |-> "ok"]
        /\ attempts = [k \in 1 .. n |-> 1]
        /\ ioQueue = <<>>
        /\ ioActive = 0
        /\ qualityResults = [k \in 1 .. n |-> [url |-> k, buffer |-> BufferOf(k)]]
        /\ validImages = [k \in 1 .. n |-> [url |-> k, buffer |-> BufferOf(k)]]
        /\ cpuSt = [k \in 1 .. n |-> "done"]
        /\ cls = [k \in 1 .. n |->
                     [discard |-> FALSE, area |-> recs[k].area,
                      severity |-> recs[k].severity, qualityScore |-> recs[k].quality]]
        /\ cpuQueue = <<>>
        /\ cpuActive = 0
        /\ photoData = recs
        /\ analyzed = n
        /\ discarded = 0
        /\ response = Null

ReportInit ==
    \/ \E n \in 0 .. MaxRecords :
          \E h \in [1 .. n -> NearFingerprints], q \in [1 .. n -> {6, 10}] :
              Classified(ClusterInput(n, h, q))
    \/ \E n \in 1 .. MaxReps :
          \E a \in [2 .. n -> {"roof", "siding"}], v \in [1 .. n -> 0 .. 4],
             q \in [1 .. n -> {6, 10}] :
              Classified(AggregateInput(n, [k \in 1 .. n |-> IF k = 1 THEN "roof" ELSE a[k]],
                                        v, q))

ReportNext == Finish

ReportSpec == ReportInit /\ [][ReportNext]_vars

(***************************************************************************)
(* Properties                                                              *)
(***************************************************************************)
FetchInFlight == {i \in DOMAIN fetchSt : fetchSt[i] \in {"attempt", "delay"}}

FetchFailed == {i \in DOMAIN fetchSt : fetchSt[i] = "failed"}

CpuInFlight == {j \in DOMAIN cpuSt : cpuSt[j] \in {"labels", "hashing"}}

CpuDone == {j \in DOMAIN cpuSt : cpuSt[j] = "done"}

\* the URLs of the request that reached a terminal state: the fetch was given
\* up, or the classification task of the fetched image settled
Terminal ==
    FetchFailed \cup
    {i \in DOMAIN fetchSt :
        /\ fetchSt[i] = "ok"
        /\ pc \in {"classifying", "returned"}
        /\ cpuSt[Cardinality({k \in 1 .. i : fetchSt[k] = "ok"})] = "done"}

Running == pc \in {"fetching", "classifying", "returned"}

\* C1: the returned report has total = number of URLs of the request and
\* total = analyzed + discarded; at every moment of an invocation the two
\* counters add up to the number of URLs that reached a terminal state, so
\* each URL is counted once, as analyzed or as discarded
C1_TotalIsAnalyzedPlusDiscarded ==
    /\ Running => /\ analyzed + discarded = Cardinality(Terminal)
                  /\ analyzed = Len(photoData)
    /\ pc = "returned" =>
          /\ response.total = Len(images)
          /\ response.total = response.analyzed + response.discarded

C1_Witness ==
    /\ pc = "returned"
    /\ Len(images) = 2
    /\ images[1] # images[2]
    /\ response.analyzed = 1
    /\ response.discarded = 1

\* C2: the response is built (clustering has run) only when every URL of the
\* request is terminal and nothing of the request is outstanding in the pool,
\* and the records and counters still are what clustering saw
C2_ClusteringAfterBarrier ==
    pc = "returned" =>
        /\ Terminal = DOMAIN fetchSt
        /\ FetchInFlight = {} /\ CpuInFlight = {}
        /\ ioQueue = <<>> /\ cpuQueue = <<>>
        /\ \A w \in Workers : listeners[w] = <<>> /\ inbox[w] = <<>> /\ replies[w] = <<>>
        /\ response.analyzed = analyzed
        /\ response.discarded = discarded
        /\ response.analyzed = Len(photoData)
        /\ response.clusters = Len(groupByHash(photoData))

C2_Witness ==
    /\ pc = "returned"
    /\ Len(images) = 2
    /\ Len(photoData) = 2
    /\ photoData[1].url = images[2]
    /\ handled[0] # <<>> /\ handled[1] # <<>>

\* C3: at most IO_LIMIT fetch tasks (attempts and retry delays) and at most
\* CPU_LIMIT classification tasks (label call and hash task) are in flight,
\* and a task waits in a queue only while every slot of its pool is taken
C3_ConcurrencyCeilings ==
    /\ Cardinality(FetchInFlight) <= IO_LIMIT
    /\ Cardinality(CpuInFlight) <= CPU_LIMIT
    /\ ioActive = Cardinality(FetchInFlight)
    /\ Running => cpuActive = Cardinality(CpuInFlight)
    /\ ioQueue # <<>> => Cardinality(FetchInFlight) = IO_LIMIT
    /\ cpuQueue # <<>> => Cardinality(CpuInFlight) = CPU_LIMIT
    /\ \A i \in DOMAIN fetchSt :
          fetchSt[i] = "queued" <=> \E k \in 1 .. Len(ioQueue) : ioQueue[k] = i
    /\ \A j \in DOMAIN cpuSt :
          cpuSt[j] = "queued" <=> \E k \in 1 .. Len(cpuQueue) : cpuQueue[k] = j

\* a request longer than the fetch ceiling has passed phase 1, and the
\* classification pool is full, with tasks started in released slots and
\* others still queued
C3_Witness ==
    /\ pc = "classifying"
    /\ Len(images) > IO_LIMIT
    /\ Cardinality(CpuInFlight) = CPU_LIMIT
    /\ CpuDone # {}
    /\ cpuQueue # <<>>

\* the fetch pool is full and the URL beyond the ceiling runs in a released slot
C3_WitnessFetch ==
    /\ pc = "fetching"
    /\ Cardinality(FetchInFlight) = IO_LIMIT
    /\ fetchSt[IO_LIMIT + 1] = "attempt"

\* a hash task of the image beyond the classification ceiling is in flight
C3_WitnessHash ==
    /\ Cardinality(CpuInFlight) = CPU_LIMIT
    /\ cpuSt[CPU_LIMIT + 1] = "hashing"

\* the attempts of URL i that failed so far
Failures(i) == IF fetchSt[i] \in {"delay", "failed"} THEN attempts[i]
               ELSE IF fetchSt[i] \in {"attempt", "ok"} THEN attempts[i] - 1 ELSE 0

C4_State ==
    pc = "fetching" =>
        /\ \A i \in DOMAIN fetchSt :
              /\ attempts[i] <= RETRIES
              /\ fetchSt[i] = "failed" <=> Failures(i) = RETRIES
              /\ fetchSt[i] = "delay" => attempts[i] < RETRIES
              /\ fetchSt[i] = "ok" <=> qualityResults[i] # Null
        /\ discarded = Cardinality(FetchFailed)

C4_Step ==
    (pc = "fetching" /\ pc' = "fetching") =>
        \A i \in DOMAIN fetchSt :
            /\ fetchSt[i] \in {"ok", "failed"} =>
                  /\ fetchSt'[i] = fetchSt[i]
                  /\ attempts'[i] = attempts[i]
                  /\ qualityResults'[i] = qualityResults[i]
            /\ attempts'[i] # attempts[i] =>
                  /\ attempts'[i] = attempts[i] + 1
                  /\ fetchSt[i] \in {"queued", "delay"}
                  /\ fetchSt'[i] = "attempt"
            /\ (fetchSt[i] = "attempt" /\ fetchSt'[i] # "attempt") =>
                  \/ /\ fetchSt'[i] = "ok"
                     /\ qualityResults'[i] = [url |-> images[i], buffer |-> BufferOf(images[i])]
                     /\ discarded' = discarded
                  \/ /\ fetchSt'[i] = "delay"
                     /\ attempts[i] < RETRIES
                     /\ discarded' = discarded
                  \/ /\ fetchSt'[i] = "failed"
                     /\ attempts[i] = RETRIES
                     /\ discarded' = discarded + 1
            /\ fetchSt[i] = "delay" => fetchSt'[i] \in {"delay", "attempt"}

\* C4: fetchWithRetry makes at most RETRIES attempts per URL; a success ends
\* the loop with the bytes of that attempt and nothing is attempted after it; a
\* failed attempt before the last is followed by the delay and then by the next
\* attempt; the URL is discarded exactly when RETRIES attempts failed, and the
\* last failure is followed by no delay
C4_RetryPolicy == [][C4_State' /\ C4_Step]_vars

\* one URL succeeded on its last attempt, the other failed all of them
C4_Witness ==
    /\ pc = "fetching"
    /\ Len(images) = 2
    /\ fetchSt[1] = "ok" /\ attempts[1] = RETRIES
    /\ fetchSt[2] = "failed" /\ attempts[2] = RETRIES
    /\ discarded = 1

\* C5: no failure of a single image makes the handler throw; every URL that is
\* not terminal yet is still being worked on (a fetch attempt or delay, a label
\* call, a hash task whose message or reply is under way) or waits for a slot
\* that a running task will release; the response has status 200 with every
\* URL terminal, and when no image survived it has zero clusters, no areas and
\* overall severity 0
C5_NoImageErrorFailsRequest ==
    /\ pc # "threw"
    /\ pc = "fetching" =>
          \A i \in DOMAIN fetchSt : fetchSt[i] = "queued" => FetchInFlight # {}
    /\ pc = "classifying" =>
          \A j \in DOMAIN cpuSt :
              /\ cpuSt[j] = "queued" => CpuInFlight # {}
              /\ cpuSt[j] = "hashing" =>
                    \E w \in Workers :
                        \E k \in 1 .. Len(listeners[w]) :
                            /\ listeners[w][k].task = j
                            /\ \/ \E m \in 1 .. Len(inbox[w]) :
                                      inbox[w][m].taskId = listeners[w][k].taskId
                               \/ \E m \in 1 .. Len(replies[w]) :
                                      replies[w][m].taskId = listeners[w][k].taskId
    /\ pc = "returned" =>
          /\ response.statusCode = 200
          /\ Terminal = DOMAIN fetchSt
          /\ \A j \in DOMAIN cpuSt : cpuSt[j] = "done"
          /\ response.analyzed = 0 =>
                /\ response.discarded = response.total
                /\ response.clusters = 0
                /\ response.areas = <<>>
                /\ response.overall_damage_severity = 0

\* every image failed, one at fetch and one at hashing
C5_Witness ==
    /\ pc = "returned"
    /\ response.statusCode = 200
    /\ Len(images) = 2
    /\ fetchSt[1] = "failed"
    /\ fetchSt[2] = "ok"
    /\ cls # <<>> /\ cls[1] # Null
    /\ response.analyzed = 0
    /\ response.discarded = 2

Ids(msgs) == [k \in 1 .. Len(msgs) |-> msgs[k].taskId]

AllPosted == UNION {{postedTo[w][k] : k \in 1 .. Len(postedTo[w])} : w \in Workers}

\* C6: over the whole life of the pool the k-th task submitted has id k and is
\* posted to worker (k - 1) mod WORKER_COUNT, so ids never repeat, each is
\* greater than all issued before, and nextWorker = taskCounter mod WORKER_COUNT
C6_RoundRobinAndIds ==
    /\ nextWorker = taskCounter % WORKER_COUNT
    /\ AllPosted = 1 .. taskCounter
    /\ \A w \in Workers :
          \A k \in 1 .. Len(postedTo[w]) : postedTo[w][k] = (k - 1) * WORKER_COUNT + w + 1

\* the pool served tasks of two invocations, more than one per worker
C6_Witness ==
    /\ invocations = 2
    /\ pc = "returned"
    /\ taskCounter = 3
    /\ Len(postedTo[0]) = 2
    /\ Len(postedTo[1]) = 1
    /\ analyzed = 1

\* C7: a classification task awaits its hash task exactly while one listener
\* of its own is registered, on one worker; a listener stays registered
\* exactly as long as the message or the reply carrying its id is under way on
\* that worker; every message and reply under way has exactly one listener
\* waiting for it; and every record pushed holds the hash of its own image
C7_RepliesMatchedById ==
    /\ \A w \in Workers :
          /\ \A k \in 1 .. Len(listeners[w]) :
                LET l == listeners[w][k]
                IN  /\ pc = "classifying"
                    /\ l.task \in DOMAIN cpuSt
                    /\ cpuSt[l.task] = "hashing"
                    /\ Cardinality({m \in 1 .. Len(inbox[w]) : inbox[w][m].taskId = l.taskId})
                       + Cardinality({m \in 1 .. Len(replies[w]) :
                                         replies[w][m].taskId = l.taskId}) = 1
          /\ \A id \in {Ids(inbox[w])[m] : m \in 1 .. Len(inbox[w])}
                       \cup {Ids(replies[w])[m] : m \in 1 .. Len(replies[w])} :
                Cardinality({k \in 1 .. Len(listeners[w]) : listeners[w][k].taskId = id}) = 1
    /\ \A j \in DOMAIN cpuSt :
          cpuSt[j] = "hashing" =>
              SumSeq([w \in 1 .. WORKER_COUNT |->
                         Cardinality({k \in 1 .. Len(listeners[w - 1]) :
                                         listeners[w - 1][k].task = j})]) = 1
    /\ \A k \in 1 .. Len(photoData) :
          photoData[k].hash = hashBuffer(BufferOf(photoData[k].url))

\* a reply is at the head of a worker's replies while another listener, for
\* an image of another URL, waits on the same worker
C7_Witness ==
    \E w \in Workers :
        /\ replies[w] # <<>>
        /\ Len(listeners[w]) = 2
        /\ listeners[w][1].taskId = Head(replies[w]).taskId
        /\ validImages[listeners[w][1].task].url # validImages[listeners[w][2].task].url

C9_WorkerStep ==
    \A w \in Workers :
        handled'[w] # handled[w] =>
            /\ inbox[w] # <<>>
            /\ replies'[w] = Append(replies[w], replies'[w][Len(replies'[w])])
            /\ replies'[w][Len(replies'[w])].taskId = Head(inbox[w]).taskId
            /\ ~replies'[w][Len(replies'[w])].error =>
                  replies'[w][Len(replies'[w])].hash = hashBuffer(Head(inbox[w]).buffer)
            /\ inbox'[w] = Tail(inbox[w])
            /\ \A v \in Workers \ {w} : inbox'[v] = inbox[v] /\ replies'[v] = replies[v]
            /\ listeners' = listeners
            /\ hung' = hung /\ ~hung'[w]
            /\ UNCHANGED <<pc, cpuSt, photoData, analyzed, discarded>>

C9_MainStep ==
    \A w \in Workers :
        (replies[w] # <<>> /\ replies'[w] = Tail(replies[w]) /\ Head(replies[w]).error) =>
            LET id == Head(replies[w]).taskId
                mine == {k \in 1 .. Len(listeners[w]) : listeners[w][k].taskId = id}
            IN  /\ Cardinality(mine) = 1
                /\ discarded' = discarded + 1
                /\ photoData' = photoData
                /\ analyzed' = analyzed
                /\ pc' = pc
                /\ listeners'[w] = SelectSeq(listeners[w], LAMBDA l : l.taskId # id)
                /\ \A v \in Workers \ {w} : listeners'[v] = listeners[v]
                /\ inbox' = inbox
                /\ \A j \in DOMAIN cpuSt :
                      IF \E k \in mine : listeners[w][k].task = j
                      THEN cpuSt[j] = "hashing" /\ cpuSt'[j] = "done"
                      ELSE cpuSt'[j] = cpuSt[j] \/ (cpuSt[j] = "queued" /\ cpuSt'[j] = "labels")

\* C9: a task that fails in the worker is answered by an error reply with the
\* id of that task and nothing else changes: the worker goes on with its
\* inbox; when the reply arrives exactly the listener of that id is removed,
\* its classification task counts one discard and pushes no record, and every
\* other listener, message and task is left as it was
C9_TaskFailureIsIsolated == [][C9_WorkerStep /\ C9_MainStep]_vars

\* the first of two hash tasks pending on one worker was rejected and counted
\* as the only discard; the second then pushed its own record, while a third
\* task is still pending on the other worker
C9_Witness ==
    /\ pc = "classifying"
    /\ invocations = 1
    /\ Len(postedTo[0]) = 2
    /\ listeners[0] = <<>>
    /\ Len(listeners[1]) = 1
    /\ discarded = 1
    /\ analyzed = 1
    /\ Len(photoData) = 1
    /\ photoData[1].hash = hashBuffer(BufferOf(photoData[1].url))

\* something of the running invocation can still happen on the main thread or
\* on a worker that is not hung
CanProgress ==
    \/ pc = "fetching"
    \/ pc = "classifying" /\ AllClassified
    \/ \E j \in DOMAIN cpuSt : cpuSt[j] = "labels"
    \/ \E w \in Workers : replies[w] # <<>>
    \/ \E w \in Workers : inbox[w] # <<>> /\ ~hung[w]

Surviving(labels) == SelectSeq(labels, LAMBDA L : L.Confidence >= 50)

\* the area a label name indicates, or None
IndicatedArea(name) ==
    LET lc == ToLowerCase(name)
    IN  IF lc \in {S_roof, S_shingle} THEN "roof"
        ELSE IF lc \in {S_garage, S_door} THEN "garage"
        ELSE IF lc \in {S_wall, S_siding, S_panel} THEN "siding"
        ELSE None

\* the positions of the area indicators in a list of labels
Indicators(labels) == {k \in 1 .. Len(labels) : IndicatedArea(labels[k].Name) # None}

\* the image of the label response was kept, or discarded by the rule
Kept == cpuSt = <<"hashing">>

Dropped == cpuSt = <<"done">> /\ discarded = 1 /\ analyzed = 0

\* C11: the area of a kept image is the one indicated by the last area
\* indicator among the labels of confidence 50 or more, in the order returned
\* ("unknown" when there is none), and the labels below 50 change nothing: the
\* outcome is that of the response without them
C11_AreaIsLastMatch ==
    \A labels \in env.responses :
        LET sv == Surviving(labels)
            hits == Indicators(sv)
            last == CHOOSE k \in hits : \A m \in hits : m <= k
        IN  /\ Kept => /\ cls[1].area = IF hits = {} THEN "unknown"
                                        ELSE IndicatedArea(sv[last].Name)
                       /\ cls[1] = classifyDamage(sv)
            /\ Dropped => classifyDamage(sv).discard

\* a roof indicator followed by a siding indicator, both above the floor, gave
\* area siding
C11_Witness ==
    /\ Kept
    /\ \E labels \in env.responses :
          /\ Len(labels) = 2
          /\ IndicatedArea(labels[1].Name) = "roof" /\ labels[1].Confidence = 100
          /\ IndicatedArea(labels[2].Name) = "siding" /\ labels[2].Confidence = 50
    /\ cls[1].area = "siding"

\* the fingerprints of a list of records, in order
Hashes(recs) == [k \in 1 .. Len(recs) |-> recs[k].hash]

FpA == <<"0","0","0","0">>

FpB == <<"0","0","1","1">>

FpC == <<"0","1","1","0">>

FpD == <<"1","1","1","1">>

\* C12 as claimed: the fingerprints 0000, 0011, 0110 in that order give two
\* clusters, the first two together and the third alone
C12_ExampleGivesTwoClusters ==
    (pc = "returned" /\ Hashes(photoData) = <<FpA, FpB, FpC>>) =>
        /\ response.clusters = 2
        /\ groupByHash(photoData) = << <<photoData[1], photoData[2]>>, <<photoData[3]>> >>

\* C12, amended: 0110 differs from the seed 0000 in two positions, so the
\* fingerprints 0000, 0011, 0110 in that order give one cluster of all three.
\* A third fingerprint that is far from the seed is not merged although it is
\* close to the second: 0000, 0011, 1111 give the first two together and the
\* third alone
C12_ExampleGivesOneCluster ==
    /\ (pc = "returned" /\ Hashes(photoData) = <<FpA, FpB, FpC>>) =>
          /\ response.clusters = 1
          /\ groupByHash(photoData) = << photoData >>
    /\ (pc = "returned" /\ Hashes(photoData) = <<FpA, FpB, FpD>>) =>
          /\ response.clusters = 2
          /\ groupByHash(photoData) = << <<photoData[1], photoData[2]>>, <<photoData[3]>> >>

\* the report for 0000, 0011, 0110 counts one cluster
C12_Witness ==
    /\ pc = "returned"
    /\ Hashes(photoData) = <<FpA, FpB, FpC>>
    /\ response.clusters = 1

\* the position of a record in photoData (in the record lists explored on
\* their own the URL of a record is its position)
Position(rec) == CHOOSE k \in 1 .. Len(photoData) : photoData[k] = rec

\* C13: when the report is returned there is one representative per cluster,
\* as many as source_images.clusters; the representative of a cluster is a
\* member of it, no member has a higher qualityScore, and every other member
\* of the same qualityScore comes later in the original order; the URLs the
\* report lists for an area are those of its representatives, in order
C13_RepresentativeIsEarliestBest ==
    pc = "returned" =>
        LET groups == groupByHash(photoData)
            best == bestImages(groups)
        IN  /\ Len(best) = response.clusters
            /\ \A k \in 1 .. Len(groups) :
                  /\ \E m \in 1 .. Len(groups[k]) : groups[k][m] = best[k]
                  /\ \A m \in 1 .. Len(groups[k]) :
                        /\ groups[k][m].quality <= best[k].quality
                        /\ groups[k][m].quality = best[k].quality =>
                              Position(best[k]) <= Position(groups[k][m])
            /\ \A a \in 1 .. Len(response.areas) :
                  LET mine == SelectSeq(best, LAMBDA r : r.area = response.areas[a].area)
                  IN  /\ mine # <<>>
                      /\ response.areas[a].representative_images =
                            [k \in 1 .. Min(3, Len(mine)) |-> mine[k].url]

\* three near-duplicates of qualities 0.6, 1, 1: one cluster, represented by
\* the second record
C13_Witness ==
    /\ pc = "returned"
    /\ Len(photoData) = 3
    /\ Hashes(photoData) = <<FpA, FpB, FpC>>
    /\ photoData[1].quality = 6 /\ photoData[2].quality = 10 /\ photoData[3].quality = 10
    /\ response.clusters = 1
    /\ response.areas[1].representative_images = <<2>>

\* the report is returned for exactly two representatives, of one area, with
\* the given severities and qualities (in tenths)
TwoRepresentatives(s1, q1, s2, q2) ==
    /\ pc = "returned"
    /\ Len(photoData) = 2
    /\ Len(groupByHash(photoData)) = 2
    /\ photoData[1].area = photoData[2].area
    /\ photoData[1].severity = s1 /\ photoData[1].quality = q1
    /\ photoData[2].severity = s2 /\ photoData[2].quality = q2

\* C14 as claimed: representatives of severity 2, quality 1 and severity 4,
\* quality 0.6 give avg_severity 2.5
C14_ExampleAverageIs25 ==
    TwoRepresentatives(2, 10, 4, 6) => response.areas[1].avg_severity = 25

\* C14, amended: for representatives of severity 2, quality 1 and severity 4,
\* quality 0.6 the quality-weighted mean (2*1 + 4*0.6)/(1 + 0.6) is 2.75, and
\* the reported avg_severity is 2.75 rounded to one decimal place: 2.8, or 2.7
\* should the floating-point quotient fall below the tie; the note is that of
\* a mean above 2.5
C14_ExampleAverageIs275 ==
    TwoRepresentatives(2, 10, 4, 6) =>
        /\ Len(response.areas) = 1
        /\ 4 * weightedSeverity(photoData) = 11 * totalWeight(photoData)
        /\ response.areas[1].avg_severity \in {27, 28}
        /\ response.areas[1].notes = "Shingle uplift or material detachment"

\* the report for the two representatives of the example gives 2.8
C14_Witness ==
    /\ TwoRepresentatives(2, 10, 4, 6)
    /\ response.areas[1].avg_severity = 28

\* the representatives of the returned report, and those of one area
Representatives == bestImages(groupByHash(photoData))

RepresentativesOf(area) == SelectSeq(Representatives, LAMBDA r : r.area = area)

\* how many of the records have severity 2 or more
Damaged(recs) == Cardinality({k \in 1 .. Len(recs) : recs[k].severity >= 2})

\* C15: for every area of the report, damage_confirmed is true exactly when
\* at least two representatives of the area have severity 2 or more
C15_ConfirmedIffTwoDamaged ==
    pc = "returned" =>
        \A a \in 1 .. Len(response.areas) :
            response.areas[a].damage_confirmed
                <=> Damaged(RepresentativesOf(response.areas[a].area)) >= 2

\* the first area has two damaged representatives of different quality and is
\* confirmed, the second has one and is not
C15_Witness ==
    /\ pc = "returned"
    /\ Len(response.areas) = 2
    /\ Damaged(RepresentativesOf(response.areas[1].area)) = 2
    /\ RepresentativesOf(response.areas[1].area)[1].quality
          # RepresentativesOf(response.areas[1].area)[2].quality
    /\ response.areas[1].damage_confirmed
    /\ Damaged(RepresentativesOf(response.areas[2].area)) = 1
    /\ ~response.areas[2].damage_confirmed

\* n/10 is a tenth nearest to num/den
NearestTenth(n, num, den) ==
    /\ 2 * (10 * num - n * den) <= den
    /\ 2 * (n * den - 10 * num) <= den

\* C16: overall_damage_severity is the quality-weighted mean of severity over
\* all representatives together, rounded to one decimal place, and 0 without
\* representatives; an empty images array gives total 0, no cluster, no area,
\* severity 0 and the low-sample warning; the warning is present exactly when
\* fewer than 3 images were analyzed
C16_OverallSeverityAndGaps ==
    pc = "returned" =>
        LET best == Representatives
            num == SumSeq([k \in 1 .. Len(best) |-> best[k].severity * best[k].quality])
            den == SumSeq([k \in 1 .. Len(best) |-> best[k].quality])
        IN  /\ best = <<>> => response.overall_damage_severity = 0
            /\ best # <<>> => NearestTenth(response.overall_damage_severity, num, den)
            /\ images = <<>> =>
                  /\ response.total = 0
                  /\ response.clusters = 0
                  /\ response.areas = <<>>
                  /\ response.overall_damage_severity = 0
                  /\ response.data_gaps = <<"Very few usable images">>
            /\ response.data_gaps \in {<<>>, <<"Very few usable images">>}
            /\ response.data_gaps # <<>> <=> response.analyzed < 3
            /\ response.analyzed = Len(photoData)

\* three images analyzed, two representatives of severity 4 in the first area
\* and one of severity 0 in the second: overall 2.7, the mean of the area
\* averages would be 2.0; no warning
C16_Witness ==
    /\ pc = "returned"
    /\ response.analyzed = 3
    /\ Len(response.areas) = 2
    /\ response.areas[1].avg_severity = 40
    /\ response.areas[2].avg_severity = 0
    /\ response.overall_damage_severity = 27
    /\ response.data_gaps = <<>>

\* the clusters and the places in them that hold the record
PlacesOf(groups, rec) ==
    {p \in {<<g, m>> : g \in 1 .. Len(groups), m \in 1 .. Len(photoData)} :
        p[2] <= Len(groups[p[1]]) /\ groups[p[1]][p[2]] = rec}

Close(r1, r2) == hammingDistance(r1.hash, r2.hash) <= 3

\* C17: the clusters partition the records: each record is in exactly one
\* cluster and no cluster is empty; the members of a cluster are in input
\* order, its first member is its seed, and every other member is within
\* distance 3 of the seed; a record is in the cluster of the earliest seed
\* before it that is within distance 3, and is a seed only if there is none;
\* the cluster sizes add up to source_images.analyzed
C17_ClustersPartitionRecords ==
    pc = "returned" =>
        LET groups == groupByHash(photoData)
            seeds == {Position(groups[g][1]) : g \in 1 .. Len(groups)}
        IN  /\ \A k \in 1 .. Len(photoData) :
                  Cardinality(PlacesOf(groups, photoData[k])) = 1
            /\ \A g \in 1 .. Len(groups) :
                  /\ groups[g] # <<>>
                  /\ \A m \in 2 .. Len(groups[g]) :
                        /\ Close(groups[g][1], groups[g][m])
                        /\ Position(groups[g][m - 1]) < Position(groups[g][m])
            /\ \A g \in 1 .. (Len(groups) - 1) :
                  Position(groups[g][1]) < Position(groups[g + 1][1])
            /\ \A k \in 1 .. Len(photoData) :
                  LET near == {i \in seeds : i < k /\ Close(photoData[i], photoData[k])}
                  IN  IF near = {} THEN k \in seeds
                      ELSE \E g \in 1 .. Len(groups) :
                              /\ Position(groups[g][1]) = CHOOSE i \in near :
                                                              \A i2 \in near : i <= i2
                              /\ \E m \in 2 .. Len(groups[g]) : groups[g][m] = photoData[k]
            /\ SumSeq([g \in 1 .. Len(groups) |-> Len(groups[g])]) = response.analyzed

\* 0000, 1111, 0011: the third record is within the threshold of both seeds
\* and is in the cluster of the first only
C17_Witness ==
    /\ pc = "returned"
    /\ Hashes(photoData) = <<FpA, FpD, FpB>>
    /\ response.clusters = 2
    /\ groupByHash(photoData) = << <<photoData[1], photoData[3]>>, <<photoData[2]>> >>

\* the exact quality-weighted mean of the representatives of area a of the
\* report, as numerator and denominator
MeanNum(a) ==
    LET mine == RepresentativesOf(response.areas[a].area)
    IN  SumSeq([k \in 1 .. Len(mine) |-> mine[k].severity * mine[k].quality])

MeanDen(a) ==
    LET mine == RepresentativesOf(response.areas[a].area)
    IN  SumSeq([k \in 1 .. Len(mine) |-> mine[k].quality])

Shingle == "Shingle uplift or material detachment"

Minor == "Minor cosmetic or no visible damage"

\* C20 as claimed: the note is the one for a high average exactly when the
\* reported avg_severity is greater than 2.5 (stated for the areas whose mean
\* is neither 2.5 nor 2.55, where no rounding error of the quotient matters)
C20_NoteAgreesWithReported ==
    pc = "returned" =>
        \A a \in 1 .. Len(response.areas) :
            (2 * MeanNum(a) # 5 * MeanDen(a) /\ 20 * MeanNum(a) # 51 * MeanDen(a)) =>
                /\ response.areas[a].notes \in {Shingle, Minor}
                /\ response.areas[a].notes = Shingle <=> response.areas[a].avg_severity > 25

\* C20, amended: the note is decided on the mean before rounding: it is the
\* one for a high average when the quality-weighted mean is above 2.5 and the
\* other one when it is below; so a reported avg_severity above 2.5 always
\* carries the high note and one below 2.5 the other, but a reported 2.5
\* carries either: the high note when the mean lies between 2.5 and 2.55
C20_NoteFollowsUnroundedMean ==
    pc = "returned" =>
        \A a \in 1 .. Len(response.areas) :
            /\ response.areas[a].notes \in {Shingle, Minor}
            /\ NearestTenth(response.areas[a].avg_severity, MeanNum(a), MeanDen(a))
            /\ 2 * MeanNum(a) > 5 * MeanDen(a) => response.areas[a].notes = Shingle
            /\ 2 * MeanNum(a) < 5 * MeanDen(a) => response.areas[a].notes = Minor
            /\ response.areas[a].avg_severity > 25 => response.areas[a].notes = Shingle
            /\ response.areas[a].avg_severity < 25 => response.areas[a].notes = Minor

\* representatives of severity 1 (quality 0.6), 2 and 4 (quality 1): the mean
\* is 6.6/2.6 = 2.54, reported as 2.5 with the high note
C20_Witness ==
    /\ pc = "returned"
    /\ Len(response.areas) = 1
    /\ Len(Representatives) = 3
    /\ MeanNum(1) = 66 /\ MeanDen(1) = 26
    /\ response.areas[1].avg_severity = 25
    /\ response.areas[1].notes = Shingle

Urls(recs) == [k \in 1 .. Len(recs) |-> recs[k].url]

\* s can be had from t by leaving elements out
RECURSIVE IsSubsequence(_, _)
IsSubsequence(s, t) ==
    IF s = <<>> THEN TRUE
    ELSE IF t = <<>> THEN FALSE
    ELSE IF Head(s) = Head(t) THEN IsSubsequence(Tail(s), Tail(t))
    ELSE IsSubsequence(s, Tail(t))

\* C18 as claimed: the records handed to clustering are in the order of their
\* URLs in the request, for every interleaving of the completions
C18_RecordsInUrlOrder == IsSubsequence(Urls(photoData), Urls(validImages))

\* the record the classification task j pushes
PushedBy(j) ==
    [url |-> validImages[j].url, area |-> cls[j].area, severity |-> cls[j].severity,
     quality |-> cls[j].qualityScore, hash |-> hashBuffer(validImages[j].buffer)]

\* C18, amended: the records handed to clustering are in the order in which
\* the hash tasks of their images completed: the list changes only by a new
\* invocation emptying it or by the classification task whose reply has just
\* been delivered appending its own record at the end, and clustering reads
\* the list as it then is
C18_Step ==
    photoData' # photoData =>
        \/ pc' = "fetching" /\ photoData' = <<>>
        \/ \E j \in DOMAIN cpuSt :
              /\ cpuSt[j] = "hashing"
              /\ cpuSt'[j] = "done"
              /\ photoData' = Append(photoData, PushedBy(j))

C18_RecordsInCompletionOrder == [][C18_Step]_vars

\* both images of a request of two URLs were analyzed, the second first
C18_Witness ==
    /\ pc = "returned"
    /\ Urls(validImages) = <<1, 2>>
    /\ Urls(photoData) = <<2, 1>>
    /\ response.clusters = 2
    /\ response.areas[1].representative_images = <<2, 1>>

\* the damage evidence of a label response: the labels of confidence 50 or
\* more whose name contains a damage keyword
Evidence(labels) ==
    SelectSeq(Surviving(labels),
              LAMBDA L : \E kw \in damageKeywords : Includes(ToLowerCase(L.Name), kw))

\* a label of confidence 50 or more named blur, blurry, dark or shadow
Flagged(labels) ==
    \E k \in 1 .. Len(labels) :
        /\ labels[k].Confidence >= 50
        /\ ToLowerCase(labels[k].Name) \in {S_blur, S_blurry, S_dark, S_shadow}

\* C19: an image is discarded exactly when no area was inferred and no damage
\* evidence was collected; for a kept image severity is an integer in 0..4,
\* 0 without damage evidence and otherwise the mean confidence of the evidence
\* divided by 25, rounded to the nearest integer (halves up) and capped at 4;
\* qualityScore is 0.6 when a blur or dark/shadow label passed the floor and 1
\* otherwise
C19_SeverityQualityDiscard ==
    \A labels \in env.responses :
        LET ev == Evidence(labels)
            n == Len(ev)
            total == SumSeq([k \in 1 .. n |-> ev[k].Confidence])
            noArea == Indicators(Surviving(labels)) = {}
        IN  /\ (Kept \/ Dropped) => (Dropped <=> (noArea /\ n = 0))
            /\ Kept =>
                  /\ cls[1].severity \in 0 .. 4
                  /\ n = 0 => cls[1].severity = 0
                  /\ n > 0 => \E r \in 0 .. 8 :
                                 /\ 50 * n * r - 25 * n <= 2 * total
                                 /\ 2 * total < 50 * n * r + 25 * n
                                 /\ cls[1].severity = IF r > 4 THEN 4 ELSE r
                  /\ cls[1].qualityScore = IF Flagged(labels) THEN 6 ELSE 10

\* damage evidence of confidences 50 and 75 (mean 62.5, 2.5 when divided by
\* 25) gives severity 3, and no quality flag passed the floor
C19_Witness ==
    /\ Kept
    /\ \E labels \in env.responses :
          /\ Len(Evidence(labels)) = 2
          /\ Evidence(labels)[1].Confidence = 50
          /\ Evidence(labels)[2].Confidence = 75
          /\ ~Flagged(labels)
    /\ cls[1].severity = 3
    /\ cls[1].qualityScore = 10

=============================================================================
